---- MODULE Spec2Model ----
(***************************************************************************)
(* Ray/surface intersection core of the Tracer package:                    *)
(*   tracer/surface.py     Surface, UniformSurface (material wrapper)      *)
(*   tracer/quadric.py     QuadricGM (batched quadric solver)              *)
(*   src/sphere_surface.py SphereSurface (scalar, ray-by-ray solver)       *)
(*                                                                         *)
(* Numbers.  The code works on floats.  The model works on integers and    *)
(* draws its rays from a grid on which every discriminant that is not      *)
(* negative is a perfect square and every root is an integer, so that the  *)
(* float arithmetic of the code is exact on the modelled inputs.  A float  *)
(* is the pair <<kind, n>>: <<"fin", n>>, <<"inf", 0>> or <<"nan", 0>>.    *)
(* Absorptivity is a fixed-point number in units of 1/AbsDen.              *)
(*                                                                         *)
(* Arrays.  A 3 x N array is a sequence of N columns, each <<x, y, z>>;    *)
(* a 1-D array is a sequence.  Positions are 1-based; the values held in   *)
(* the select array are the 0-based indices of the code.                   *)
(*                                                                         *)
(* Uninitialised memory.  numpy.empty returns storage that is not written; *)
(* an entry that is read before it is assigned is any member of Uninit     *)
(* (for a number) or UninitVec (for a column).                             *)
(***************************************************************************)
EXTENDS Integers, Sequences, FiniteSets, TLC

(* ------------------------------ bounds --------------------------------- *)

\* Largest number of rays in one bundle.
MaxRays == 2
\* Denominator of the fixed-point grid for absorptivity (1.0 is AbsDen).
AbsDen == 10
\* How far beyond [0, 1] (in grid units) the absorptivity arguments reach.
AbsSlack == 5
\* Largest radius handed to set_radius (the smallest is -1).
MaxRad == 2

(* ------------------------------ floats --------------------------------- *)

Fin(n) == <<"fin", n>>
Inf == <<"inf", 0>>
NaN == <<"nan", 0>>
IsFin(x) == x[1] = "fin"
\* x > 0 on floats: false for NaN.
Positive(x) == (x[1] = "fin" /\ x[2] > 0) \/ x[1] = "inf"

Abs(n) == IF n < 0 THEN -n ELSE n
\* a / b where b divides a.
Div(a, b) ==
  LET q == Abs(a) \div Abs(b)
  IN  IF (a < 0) = (b < 0) THEN q ELSE -q
Divides(b, a) == b # 0 /\ Abs(a) % Abs(b) = 0
IsSquare(n) == n >= 0 /\ \E k \in 0..n : k * k = n
Sqrt(n) == CHOOSE k \in 0..n : k * k = n

(* ------------------------------ vectors -------------------------------- *)

VAdd(a, b) == <<a[1] + b[1], a[2] + b[2], a[3] + b[3]>>
VSub(a, b) == <<a[1] - b[1], a[2] - b[2], a[3] - b[3]>>
VScale(a, k) == <<a[1] * k, a[2] * k, a[3] * k>>
VDot(a, b) == a[1] * b[1] + a[2] * b[2] + a[3] * b[3]

\* Values an unwritten float may hold: a NaN, 0, 1, or something else.
Uninit == {NaN, Fin(0), Fin(1), Fin(2)}
\* Values an unwritten column may hold when it is read.
UninitVec == {<<0, 0, 0>>, <<9, 9, 9>>}
\* A column of a numpy.empty array that has not been written: it holds no
\* value of the program until it is read.
Unwritten == <<>>

\* All sequences s with s[i] \in doms[i].
RECURSIVE Prod(_)
Prod(doms) ==
  IF doms = <<>> THEN {<<>>}
  ELSE {<<x>> \o rest : x \in Head(doms), rest \in Prod(Tail(doms))}

\* a[mask]: the entries of a at the positions where mask is TRUE, in order.
RECURSIVE Compress(_, _)
Compress(a, mask) ==
  IF a = <<>> THEN <<>>
  ELSE (IF Head(mask) THEN <<Head(a)>> ELSE <<>>) \o Compress(Tail(a), Tail(mask))

\* Number of TRUE entries among mask[1..i].
RECURSIVE CountTo(_, _)
CountTo(mask, i) ==
  IF i = 0 THEN 0 ELSE CountTo(mask, i - 1) + (IF mask[i] THEN 1 ELSE 0)

(* ------------------------------ inputs --------------------------------- *)

\* RayBundle: per ray a vertex v, a direction d, an energy e and a parent p.
Ray(v, d, e, p) == [v |-> v, d |-> d, e |-> e, p |-> p]

Rays ==
  { Ray(<<0, 0, 3>>,  <<0, 0, -1>>, 1, 0),
    Ray(<<0, 0, 0>>,  <<0, 0, 1>>,  2, 1),
    Ray(<<0, 0, 3>>,  <<0, 0, 1>>,  1, 2),
    Ray(<<2, 0, 3>>,  <<0, 0, -1>>, 2, 3),
    Ray(<<0, 0, 3>>,  <<0, 0, -2>>, 1, 4),
    Ray(<<1, 0, 3>>,  <<0, 0, -1>>, 2, 5),
    Ray(<<0, 0, -3>>, <<0, 0, 1>>,  1, 6),
    Ray(<<0, 0, 0>>,  <<0, 0, -1>>, 2, 7) }

Bundles == UNION {[1..n -> Rays] : n \in 1..MaxRays}
Selectors(n) == [1..n -> BOOLEAN]

Centers == {<<0, 0, 0>>, <<0, 0, 1>>}

\* BoundaryShape (a BoundarySphere): the points within rad of loc.
Boundaries == {[loc |-> <<0, 0, 0>>, rad |-> 10], [loc |-> <<0, 0, 2>>, rad |-> 2]}
in_bounds(boundary, p) ==
  VDot(VSub(p, boundary.loc), VSub(p, boundary.loc)) <= boundary.rad * boundary.rad

VARIABLES
  absorpt,          \* UniformSurface._absorpt
  radius,           \* SphereSurface._rad
  center,           \* SphereSurface._center
  boundary,         \* SphereSurface._boundary
  sphere_vertices,  \* SphereSurface._vertices
  sphere_norm,      \* SphereSurface._norm
  sphere_bundle,    \* SphereSurface._current_bundle
  shape,            \* which QuadricGM subclass the geometry manager is
  gm_frame,         \* QuadricGM._working_frame (its translation column)
  gm_vertices,      \* QuadricGM._vertices
  gm_norm,          \* QuadricGM._norm
  gm_bundle,        \* QuadricGM._current_bundle
  ret               \* the last call: [op, arg, val, exc]

vars == <<absorpt, radius, center, boundary, sphere_vertices, sphere_norm,
          sphere_bundle, shape, gm_frame, gm_vertices, gm_norm, gm_bundle, ret>>

sphereVars == <<radius, center, boundary, sphere_vertices, sphere_norm, sphere_bundle>>
gmVars == <<shape, gm_frame, gm_vertices, gm_norm, gm_bundle>>

Call(op, arg, val, exc) == [op |-> op, arg |-> arg, val |-> val, exc |-> exc]

(* --------------------- tracer/surface.py: UniformSurface ---------------- *)

AbsArgs == (0 - AbsSlack)..(AbsDen + AbsSlack)

\* The guard of set_absorptivity: 0 <= absorptivity <= 1.
AbsorptivityOkOpenAtZero(a) == 0 < a /\ a <= AbsDen
AbsorptivityOk(a) == 0 <= a /\ a <= AbsDen

set_absorptivity(a) ==
  /\ IF ~AbsorptivityOk(a)
       THEN /\ ret' = Call("set_absorptivity", a, 0, "ValueError")
            /\ UNCHANGED absorpt
       ELSE /\ absorpt' = a
            /\ ret' = Call("set_absorptivity", a, 0, "none")
  /\ UNCHANGED <<sphereVars, gmVars>>

SetAbsorptivity == \E a \in AbsArgs : set_absorptivity(a)

\* UniformSurface.__init__ stores the absorptivity through the setter, so a
\* constructed surface holds a value the setter accepted.
InitAbsorptivities == {a \in AbsArgs : AbsorptivityOk(a)}

(* --------------------- src/sphere_surface.py: SphereSurface ------------- *)

RadArgs == (0 - 1)..MaxRad

\* The guard of set_radius.
RadiusRejected(rad) == rad <= 0

\* The rejection names ValuError, which is not defined: evaluating it raises
\* NameError before any exception object is built.
set_radius(rad) ==
  /\ IF RadiusRejected(rad)
       THEN /\ ret' = Call("set_radius", rad, 0, "NameError")
            /\ UNCHANGED radius
       ELSE /\ radius' = rad
            /\ ret' = Call("set_radius", rad, 0, "none")
  /\ UNCHANGED <<absorpt, center, boundary, sphere_vertices, sphere_norm,
                 sphere_bundle, gmVars>>

SetRadius == \E rad \in RadArgs : set_radius(rad)

\* Lines 58-64: the coefficients of A t^2 + B t + C = 0 for one ray.
SphereABC(ray, c, rad) ==
  LET w == VSub(ray.v, c)
  IN  [A |-> VDot(ray.d, ray.d),
       B |-> 2 * VDot(ray.d, w),
       C |-> VDot(w, w) - rad * rad]

Delta(abc) == abc.B * abc.B - 4 * abc.A * abc.C

\* Lines 77-78: the two roots, t0 with the minus sign.
QuadRoots(abc) ==
  LET s == Sqrt(Delta(abc))
  IN  <<Div((0 - abc.B) - s, 2 * abc.A), Div((0 - abc.B) + s, 2 * abc.A)>>

\* The inputs on which the float arithmetic of the roots is exact.
ExactQuadric(abc) ==
  \/ Delta(abc) < 0
  \/ /\ abc.A > 0
     /\ IsSquare(Delta(abc))
     /\ Divides(2 * abc.A, (0 - abc.B) - Sqrt(Delta(abc)))
     /\ Divides(2 * abc.A, (0 - abc.B) + Sqrt(Delta(abc)))

\* Lines 82-96: the 0-based index of the chosen root, or -1 for a miss.
\* N.argmin returns the first index of the minimum.
ScalarParam(hits) ==
  LET pos == {k \in {0, 1} : hits[k + 1] > 0}
  IN  IF pos = {} THEN 0 - 1
      ELSE IF pos = {0, 1} THEN (IF hits[1] <= hits[2] THEN 0 ELSE 1)
      ELSE CHOOSE k \in pos : \A j \in pos : k <= j

\* Lines 102-106: the normal from the sign of (c - hit) . (hit - vertex).
SphereNormalOuterOnly(dot, hit, c) == VSub(hit, c)
SphereNormal(dot, hit, c) == IF dot <= 0 THEN VSub(c, hit) ELSE VSub(hit, c)

\* Line 109: selector = self._boundary.in_bounds(verts); selector[0].
Clip(bnd, hit) == in_bounds(bnd, hit)

\* One pass of the loop body (lines 58-116): what it appends to params, to
\* vertices and to norm.  N.empty([3,1]) is an unwritten column.
RayStep(ray, c, rad, bnd) ==
  LET abc == SphereABC(ray, c, rad)
  IN  IF Delta(abc) < 0
        THEN {[params |-> <<Inf>>, vertices |-> <<>>, norm |-> <<>>]}
        ELSE
          LET hits == QuadRoots(abc)
              param == ScalarParam(hits)
              hit == VAdd(ray.v, VScale(ray.d, hits[param + 1]))
              dot == VDot(VSub(c, hit), VSub(hit, ray.v))
          IN  IF param = 0 - 1 \/ ~Clip(bnd, hit)
                THEN {[params |-> <<Inf>>, vertices |-> <<Unwritten>>, norm |-> <<>>]}
                ELSE {[params |-> <<Fin(hits[param + 1])>>,
                       vertices |-> <<hit>>,
                       norm |-> <<SphereNormal(dot, hit, c)>>]}

\* The loop of lines 56-116 over the rays of the bundle, in order.
RECURSIVE RegisterLoop(_, _, _, _)
RegisterLoop(bundle, c, rad, bnd) ==
  IF bundle = <<>>
    THEN {[params |-> <<>>, vertices |-> <<>>, norm |-> <<>>]}
    ELSE {[params |-> h.params \o t.params,
           vertices |-> h.vertices \o t.vertices,
           norm |-> h.norm \o t.norm]
            : h \in RayStep(Head(bundle), c, rad, bnd),
              t \in RegisterLoop(Tail(bundle), c, rad, bnd)}

ExactForSphere(bundle, c, rad) ==
  \A i \in DOMAIN bundle : ExactQuadric(SphereABC(bundle[i], c, rad))

\* The loop on every sphere and every bundle of the model, tabulated once.
RegisterTable ==
  UNION { {[center |-> x[1], radius |-> x[2], boundary |-> x[3], bundle |-> x[4],
            out |-> o] : o \in RegisterLoop(x[4], x[1], x[2], x[3])}
          : x \in {y \in Centers \X (1..MaxRad) \X Boundaries \X Bundles :
                     ExactForSphere(y[4], y[1], y[2])} }

\* SphereSurface.register_incoming, lines 40-124; out is what the loop built.
register_store(ray_bundle, out) ==
  /\ sphere_vertices' = out.vertices
  /\ sphere_bundle' = ray_bundle
  /\ sphere_norm' = out.norm
  /\ UNCHANGED <<radius, center, boundary>>

register_incoming(ray_bundle, out) ==
  /\ register_store(ray_bundle, out)
  /\ ret' = Call("register_incoming", ray_bundle, out.params, "none")
  /\ UNCHANGED <<absorpt, gmVars>>

RegisterIncoming ==
  \E call \in RegisterTable :
    /\ call.center = center
    /\ call.radius = radius
    /\ call.boundary = boundary
    /\ register_incoming(call.bundle, call.out)

\* optics.reflections: the mirror law d - 2 (d . n) n, column by column.
reflections(dirs, normals) ==
  [i \in DOMAIN dirs |->
     VSub(dirs[i], VScale(normals[i], 2 * VDot(dirs[i], normals[i])))]

\* Whether numpy broadcasts a 3 x k against a 3 x m array.
Broadcasts(k, m) == k = m \/ k = 1 \/ m = 1

\* SphereSurface.get_outgoing, lines 126-144.  Line 134 hands the selected
\* directions and all of _norm to optics.reflections; line 136 then reads the
\* name parent, which no scope defines, so the call ends in NameError before
\* any bundle is built.  Before the first register_incoming the attributes
\* _current_bundle and _norm do not exist.
get_outgoing(selector) ==
  /\ ret' = Call("get_outgoing", selector, <<>>,
                 IF sphere_bundle = <<>> THEN "AttributeError"
                 ELSE IF ~Broadcasts(CountTo(selector, Len(selector)), Len(sphere_norm))
                   THEN "ValueError"
                 ELSE "NameError")
  /\ UNCHANGED <<absorpt, sphereVars, gmVars>>

GetOutgoing ==
  \E selector \in Selectors(IF sphere_bundle = <<>> THEN 1 ELSE Len(sphere_bundle)) :
    get_outgoing(selector)

(* --------------------- tracer/quadric.py: QuadricGM --------------------- *)

\* The subclasses of QuadricGM the model knows: a sphere of radius rad about
\* the frame's origin, and the paraboloid z = x^2 + y^2 with its apex there.
Shapes ==
  {[kind |-> "sphere", rad |-> rad] : rad \in 1..MaxRad}
    \cup {[kind |-> "paraboloid", rad |-> 0]}

\* get_ABC, the subclass hook: the coefficients of the ray parameter's
\* quadratic for one ray.
get_ABC(shp, ray, c) ==
  IF shp.kind = "sphere" THEN SphereABC(ray, c, shp.rad)
  ELSE LET w == VSub(ray.v, c)
           d == ray.d
       IN  [A |-> d[1] * d[1] + d[2] * d[2],
            B |-> 2 * (d[1] * w[1] + d[2] * w[2]) - d[3],
            C |-> w[1] * w[1] + w[2] * w[2] - w[3]]

\* _normals, the subclass hook: the surface gradient at the hit, turned by the
\* sign of sides = (c - hit) . d.
Gradient(shp, hit, c) ==
  LET w == VSub(hit, c)
  IN  IF shp.kind = "sphere" THEN w ELSE <<2 * w[1], 2 * w[2], 0 - 1>>
normals(shp, sides, hit, c) ==
  IF sides > 0 THEN Gradient(shp, hit, c) ELSE VScale(Gradient(shp, hit, c), 0 - 1)

\* Line 45: almost_planar = A <= 1e-10, on integer coefficients.
AlmostPlanar(A) == A <= 0

\* The inputs on which the float arithmetic of lines 48-50 is exact.
ExactForQuadric(shp, bundle, c) ==
  \A i \in DOMAIN bundle :
    LET abc == get_ABC(shp, bundle[i], c)
    IN  IF AlmostPlanar(abc.A) /\ Delta(abc) >= 0
          THEN Divides(abc.B, abc.C)
          ELSE ExactQuadric(abc)

\* Lines 44-50: the two rows of hits for one ray; uh is what the unwritten
\* pair holds.
HitsOf(abc, uh) ==
  IF Delta(abc) < 0 THEN uh
  ELSE IF AlmostPlanar(abc.A)
    THEN <<Fin(Div(0 - abc.C, abc.B)), Fin(Div(0 - abc.C, abc.B))>>
  ELSE <<Fin(QuadRoots(abc)[1]), Fin(QuadRoots(abc)[2])>>

\* The only read of an unwritten entry of hits is the test prm > 0 of
\* _select_coords, so one value for each answer stands for all of them.
UninitHits == {<<a, b>> : a \in {Fin(0), Fin(1)}, b \in {Fin(0), Fin(1)}}

\* _select_coords, lines 76-107.  us is what select = N.empty(n) holds.
\*   line 98   select[or]  = nan
\*   line 101  select[and] = 0
\*   line 105  select[one_pos] = N.nonzero(is_positive[:, one_pos])[0]
\* N.nonzero lists the TRUE entries row by row, so its row indices are k0
\* zeros followed by ones, where k0 counts the one_pos columns whose row 0 is
\* positive; they are assigned to the one_pos columns from left to right.
select_coords(prm, us) ==
  LET n == Len(prm)
      is_positive == <<>> \o [i \in 1..n |-> <<Positive(prm[i][1]), Positive(prm[i][2])>>]
      one_pos == <<>> \o [i \in 1..n |-> is_positive[i][1] # is_positive[i][2]]
      k0 == Cardinality({i \in 1..n : one_pos[i] /\ is_positive[i][1]})
  IN  <<>> \o [i \in 1..n |->
         IF one_pos[i] THEN (IF CountTo(one_pos, i) <= k0 THEN Fin(0) ELSE Fin(1))
         ELSE IF is_positive[i][1] /\ is_positive[i][2] THEN Fin(0)
         ELSE IF is_positive[i][1] \/ is_positive[i][2] THEN NaN
         ELSE us[i]]

\* The entries of select that no line of _select_coords writes.
SelectUnwritten(prm) ==
  [i \in 1..Len(prm) |-> ~Positive(prm[i][1]) /\ ~Positive(prm[i][2])]

\* Lines 26-74 for given contents of the unwritten entries: the value
\* returned and the arrays stored, or the exception of N.choose (line 60),
\* which rejects an index other than 0 and 1.
FindResult(shp, c, bundle, uh, us) ==
  LET n == Len(bundle)
      abc == <<>> \o [i \in 1..n |-> get_ABC(shp, bundle[i], c)]
      hits == <<>> \o [i \in 1..n |-> HitsOf(abc[i], uh[i])]
      select == select_coords(hits, us)
      any_inters == <<>> \o [i \in 1..n |-> Delta(abc[i]) >= 0 /\ select[i] # NaN]
      t(i) == hits[i][select[i][2] + 1]
      vertex(i) == VAdd(bundle[i].v, VScale(bundle[i].d, t(i)[2]))
      sides(i) == VDot(VSub(c, vertex(i)), bundle[i].d)
  IN  IF \E i \in 1..n : any_inters[i] /\ select[i][2] \notin {0, 1}
        THEN [exc |-> "ValueError", params |-> <<>>, vertices |-> <<>>, norm |-> <<>>]
        ELSE [exc |-> "none",
              params |-> [i \in 1..n |-> IF any_inters[i] THEN t(i) ELSE Inf],
              vertices |-> [i \in 1..n |->
                              IF any_inters[i] THEN vertex(i) ELSE Unwritten],
              norm |-> [i \in 1..n |->
                          IF any_inters[i]
                            THEN normals(shp, sides(i), vertex(i), c)
                            ELSE Unwritten]]

\* The contents of the unwritten entries that decide what a call does.  An
\* unwritten entry of select at a ray with a negative discriminant is read by
\* N.isnan only, to clear an any_inters flag that is clear already.
UnwrittenHits(shp, c, bundle) ==
  Prod([i \in 1..Len(bundle) |->
          IF Delta(get_ABC(shp, bundle[i], c)) < 0 THEN UninitHits
          ELSE {<<NaN, NaN>>}])
UnwrittenSelect(shp, c, bundle, uh) ==
  LET hits == <<>> \o [i \in 1..Len(bundle) |-> HitsOf(get_ABC(shp, bundle[i], c), uh[i])]
  IN  Prod([i \in 1..Len(bundle) |->
              IF Delta(get_ABC(shp, bundle[i], c)) >= 0 /\ SelectUnwritten(hits)[i]
                THEN Uninit ELSE {NaN}])

\* What lines 26-74 can come to on one input: one result for every content
\* of the unwritten entries.
FindOutcomes(shp, c, bundle) ==
  UNION { {FindResult(shp, c, bundle, uh, us)
             : us \in UnwrittenSelect(shp, c, bundle, uh)}
          : uh \in UnwrittenHits(shp, c, bundle) }

\* Lines 26-74 on every shape, frame and bundle of the model, tabulated once.
FindTable ==
  UNION { {[shape |-> x[1], frame |-> x[2], bundle |-> x[3], res |-> r]
             : r \in FindOutcomes(x[1], x[2], x[3])}
          : x \in {y \in Shapes \X Centers \X Bundles :
                     ExactForQuadric(y[1], y[3], y[2])} }

\* QuadricGM.find_intersections, lines 10-74; res is what lines 26-61 came
\* to.  GeometryManager's own find_intersections (line 24) records the
\* working frame first; the arrays are stored at lines 65-72, after the line
\* that can raise.
find_store(frame, ray_bundle, res) ==
  /\ gm_frame' = frame
  /\ IF res.exc # "none"
       THEN UNCHANGED <<gm_vertices, gm_norm, gm_bundle>>
       ELSE /\ gm_norm' = res.norm
            /\ gm_vertices' = res.vertices
            /\ gm_bundle' = ray_bundle
  /\ UNCHANGED shape

find_intersections(frame, ray_bundle, res) ==
  /\ find_store(frame, ray_bundle, res)
  /\ ret' = Call("find_intersections", ray_bundle, res.params, res.exc)
  /\ UNCHANGED <<absorpt, sphereVars>>

\* The caller hands over the frame of the surface the manager serves.
FindIntersections ==
  \E call \in FindTable :
    /\ call.shape = shape
    /\ call.frame = center
    /\ find_intersections(call.frame, call.bundle, call.res)

\* What a caller sees in a column: an unwritten one reads as anything.
ReadColumns(cols) ==
  Prod([i \in DOMAIN cols |-> IF cols[i] = Unwritten THEN UninitVec ELSE {cols[i]}])

\* QuadricGM.get_normals, lines 109-118: self._norm[:, selector].
get_normals(selector) ==
  /\ ret' = Call("get_normals", selector, <<>>,
                 IF gm_bundle = <<>> THEN "AttributeError" ELSE "none")
  /\ UNCHANGED <<absorpt, sphereVars, gmVars>>

\* QuadricGM.get_intersection_points_global, lines 120-131:
\* self._vertices[:, selector].
get_intersection_points_global(selector) ==
  /\ ret' = Call("get_intersection_points_global", selector, <<>>,
                 IF gm_bundle = <<>> THEN "AttributeError" ELSE "none")
  /\ UNCHANGED <<absorpt, sphereVars, gmVars>>

\* The value a retrieval returns, as a set: one member per way of reading the
\* unwritten columns.
NormalsReturned(selector) == ReadColumns(Compress(gm_norm, selector))
PointsReturned(selector) == ReadColumns(Compress(gm_vertices, selector))

GmSelectors == Selectors(IF gm_bundle = <<>> THEN 1 ELSE Len(gm_bundle))
GetNormals == \E selector \in GmSelectors : get_normals(selector)
GetIntersectionPointsGlobal ==
  \E selector \in GmSelectors : get_intersection_points_global(selector)

(* ------------------------------ specifications -------------------------- *)

\* A constructed UniformSurface / SphereSurface and a QuadricGM that has not
\* yet seen a bundle.  <<>> stands for an attribute that is not yet set.
Init ==
  /\ absorpt \in InitAbsorptivities
  /\ radius \in {rad \in RadArgs : ~RadiusRejected(rad)}
  /\ center \in Centers
  /\ boundary \in Boundaries
  /\ sphere_vertices = <<>>
  /\ sphere_norm = <<>>
  /\ sphere_bundle = <<>>
  /\ shape \in Shapes
  /\ gm_frame = <<>>
  /\ gm_vertices = <<>>
  /\ gm_norm = <<>>
  /\ gm_bundle = <<>>
  /\ ret = Call("init", 0, 0, "none")

\* UniformSurface on its own.
InitUniform ==
  /\ Init
  /\ radius = 1 /\ center = <<0, 0, 0>> /\ boundary.rad = 10
  /\ shape = [kind |-> "sphere", rad |-> 1]
NextUniform == SetAbsorptivity
SpecUniform == InitUniform /\ [][NextUniform]_vars

\* SphereSurface, built with the default absorptivity 0.
InitSphere == Init /\ absorpt = 0 /\ shape = [kind |-> "sphere", rad |-> 1]
NextSphere == SetRadius \/ RegisterIncoming \/ GetOutgoing
SpecSphere == InitSphere /\ [][NextSphere]_vars

\* SphereSurface used for intersection only.
NextRegister == RegisterIncoming
SpecRegister == InitSphere /\ [][NextRegister]_vars

\* QuadricGM on its own, serving a surface whose frame has its origin at
\* center.
InitQuadric == Init /\ absorpt = 0 /\ radius = 1 /\ boundary.rad = 10
NextQuadric == FindIntersections \/ GetNormals \/ GetIntersectionPointsGlobal
SpecQuadric == InitQuadric /\ [][NextQuadric]_vars

\* The batched solver, given the sphere's coefficients, and the scalar loop
\* on the same sphere and the same bundle, tabulated once.
SphereShape(rad) == [kind |-> "sphere", rad |-> rad]
BothTable ==
  UNION { {[center |-> x[1], radius |-> x[2], boundary |-> x[3], bundle |-> x[4],
            res |-> r, out |-> o]
             : r \in FindOutcomes(SphereShape(x[2]), x[1], x[4]),
               o \in RegisterLoop(x[4], x[1], x[2], x[3])}
          : x \in {y \in Centers \X (1..MaxRad) \X Boundaries \X Bundles :
                     ExactForSphere(y[4], y[1], y[2])} }

\* One bundle through both: ret.val is the pair of what the two return,
\* ret.exc what the batched solver raised.
RunBoth ==
  \E both \in BothTable :
    /\ both.center = center /\ both.radius = radius /\ both.boundary = boundary
    /\ find_store(center, both.bundle, both.res)
    /\ register_store(both.bundle, both.out)
    /\ ret' = Call("both", both.bundle, <<both.res.params, both.out.params>>,
                   both.res.exc)
    /\ UNCHANGED absorpt

InitEquiv == Init /\ absorpt = 0 /\ shape.kind = "sphere" /\ shape.rad = radius
NextEquiv == RunBoth
SpecEquiv == InitEquiv /\ [][NextEquiv]_vars

(* ------------------------------ the claims ------------------------------ *)

Min(a, b) == IF a <= b THEN a ELSE b

\* The two real roots of A t^2 + B t + C = 0 (of B t + C = 0, twice, when
\* there is no square term), for a discriminant that is not negative.
RealRoots(abc) ==
  IF abc.A = 0 THEN <<Div(0 - abc.C, abc.B), Div(0 - abc.C, abc.B)>>
  ELSE QuadRoots(abc)
SomeRootPositive(abc) == RealRoots(abc)[1] > 0 \/ RealRoots(abc)[2] > 0
\* The smallest root that is > 0, when there is one.
FirstPositiveRoot(abc) ==
  LET r == RealRoots(abc)
  IN  IF r[1] > 0 /\ r[2] > 0 THEN Min(r[1], r[2])
      ELSE IF r[1] > 0 THEN r[1] ELSE r[2]
\* No real root, or no root > 0.
MissesQuadric(abc) == Delta(abc) < 0 \/ ~SomeRootPositive(abc)
PointAt(ray, t) == VAdd(ray.v, VScale(ray.d, t))

FindReturned == ret.op = "find_intersections" /\ ret.exc = "none"
\* The coefficients the geometry manager worked with for ray i of the call.
GmABC(i) == get_ABC(shape, ret.arg[i], gm_frame)
\* The coefficients of the sphere surface for ray i of the call.
SurfABC(i) == SphereABC(ret.arg[i], center, radius)

\* C1: after find_intersections or register_incoming, params[i] is +infinity
\* exactly when ray i has no usable intersection (negative discriminant, no
\* root > 0, or a selected point the boundary rejects), and finite otherwise.
C1_InfIffNoUsableIntersection ==
  /\ FindReturned =>
       \A i \in DOMAIN ret.arg :
         /\ (ret.val[i] = Inf) <=> MissesQuadric(GmABC(i))
         /\ ret.val[i] = Inf \/ IsFin(ret.val[i])
  /\ ret.op = "register_incoming" =>
       \A i \in DOMAIN ret.arg :
         /\ (ret.val[i] = Inf) <=>
              \/ MissesQuadric(SurfABC(i))
              \/ ~in_bounds(boundary, PointAt(ret.arg[i], FirstPositiveRoot(SurfABC(i))))
         /\ ret.val[i] = Inf \/ IsFin(ret.val[i])

\* C2: for a ray with a discriminant >= 0 and a root > 0, find_intersections
\* stores the smallest root > 0 as its parameter and vertex + t * direction,
\* for that t, as its intersection point.
C2_SmallestPositiveRootStored ==
  FindReturned =>
    \A i \in DOMAIN ret.arg :
      ~MissesQuadric(GmABC(i)) =>
        /\ ret.val[i] = Fin(FirstPositiveRoot(GmABC(i)))
        /\ gm_vertices[i] = PointAt(ret.arg[i], FirstPositiveRoot(GmABC(i)))

\* C3: find_intersections never raises on a bundle, whatever its mix of hits
\* and misses, and returns one entry per ray; when every ray misses, every
\* entry is +infinity.
C3_MissesAreNotErrors ==
  ret.op = "find_intersections" =>
    /\ ret.exc = "none"
    /\ Len(ret.val) = Len(ret.arg)
    /\ (\A i \in DOMAIN ret.arg : MissesQuadric(GmABC(i)))
         => \A i \in DOMAIN ret.arg : ret.val[i] = Inf

\* C4: on the same sphere and the same bundle the batched solver with the
\* sphere's coefficients and the scalar loop return the same params, so the
\* same rays hit and the same rays miss.
C4_BatchedEqualsScalar ==
  ret.op = "both" => ret.exc = "none" /\ ret.val[1] = ret.val[2]

\* C5: after an intersection call on N rays the stored vertices and normals
\* have N columns each, and column i is the intersection point and the normal
\* of ray i.
C5_ColumnPerRay ==
  /\ ret.op = "register_incoming" =>
       /\ Len(sphere_vertices) = Len(ret.arg)
       /\ Len(sphere_norm) = Len(ret.arg)
       /\ \A i \in DOMAIN ret.arg :
            IsFin(ret.val[i]) =>
              LET hit == PointAt(ret.arg[i], ret.val[i][2])
              IN  /\ sphere_vertices[i] = hit
                  /\ sphere_norm[i] \in {VSub(hit, center), VSub(center, hit)}
  /\ FindReturned =>
       /\ Len(gm_vertices) = Len(ret.arg)
       /\ Len(gm_norm) = Len(ret.arg)
       /\ \A i \in DOMAIN ret.arg :
            IsFin(ret.val[i]) => gm_vertices[i] = PointAt(ret.arg[i], ret.val[i][2])

\* Whether ray i of the registered bundle hits the sphere surface as it is.
SurfaceHit(i) ==
  LET abc == SphereABC(sphere_bundle[i], center, radius)
  IN  /\ ~MissesQuadric(abc)
      /\ in_bounds(boundary, PointAt(sphere_bundle[i], FirstPositiveRoot(abc)))
\* The normal at a point of the sphere, by the rule of section 4.2.
SurfaceNormal(ray, hit) ==
  IF VDot(VSub(center, hit), VSub(hit, ray.v)) <= 0
    THEN VSub(center, hit) ELSE VSub(hit, center)
\* The bundle get_outgoing is to build for a selector that picks hits only.
OutgoingOf(selector) ==
  LET rays == Compress(sphere_bundle, selector)
      hit(i) == PointAt(rays[i],
                        FirstPositiveRoot(SphereABC(rays[i], center, radius)))
  IN  [vertices |-> [i \in DOMAIN rays |-> hit(i)],
       directions |-> reflections([i \in DOMAIN rays |-> rays[i].d],
                                  [i \in DOMAIN rays |-> SurfaceNormal(rays[i], hit(i))]),
       energy |-> [i \in DOMAIN rays |-> rays[i].e],
       parent |-> [i \in DOMAIN rays |-> rays[i].p]]

\* C6: get_outgoing with a selector that picks some rays, all of them hit
\* rays of the bundle registered last, returns a new bundle: the stored intersection points, the
\* reflected directions, and the energy and parents of the selected rays.
C6_OutgoingBundle ==
  ( /\ ret.op = "get_outgoing"
    /\ sphere_bundle # <<>>
    /\ ExactForSphere(sphere_bundle, center, radius)
    /\ \E i \in DOMAIN ret.arg : ret.arg[i]
    /\ \A i \in DOMAIN ret.arg : ret.arg[i] => SurfaceHit(i) )
  => /\ ret.exc = "none"
     /\ ret.val = OutgoingOf(ret.arg)

\* C7: set_radius(rad) with rad <= 0 raises ValueError and leaves the radius
\* as it was; with rad > 0 it stores rad.
C7_RadiusValidation ==
  [][ret'.op = "set_radius" =>
       IF ret'.arg <= 0
         THEN ret'.exc = "ValueError" /\ radius' = radius
         ELSE ret'.exc = "none" /\ radius' = ret'.arg]_vars

\* C8: set_absorptivity(a) raises ValueError and leaves the absorptivity as
\* it was when a < 0 or a > 1, and stores a when 0 <= a <= 1; the stored
\* absorptivity is always within [0, 1].
C8_AbsorptivityValidation ==
  /\ [](0 <= absorpt /\ absorpt <= AbsDen)
  /\ [][ret'.op = "set_absorptivity" =>
          IF ret'.arg < 0 \/ ret'.arg > AbsDen
            THEN ret'.exc = "ValueError" /\ absorpt' = absorpt
            ELSE ret'.exc = "none" /\ absorpt' = ret'.arg]_vars

\* C8 witness: the endpoint 1 is stored and a later call with a value above 1
\* was rejected.
C8_Witness ==
  /\ ret.op = "set_absorptivity"
  /\ ret.exc = "ValueError"
  /\ ret.arg > AbsDen
  /\ absorpt = AbsDen

\* The parameters t > 0 at which ray i of the call meets the sphere surface.
\* A ray that starts inside leaves within a diameter.
ExitTimes(i) ==
  {t \in 1..(2 * radius) :
     LET w == VSub(PointAt(ret.arg[i], t), center)
     IN  VDot(w, w) = radius * radius}
StartsInside(i) ==
  LET w == VSub(ret.arg[i].v, center)
  IN  VDot(w, w) < radius * radius
\* The columns of _vertices and _norm that the loop appended for ray i.
VertexColumn(i) ==
  CountTo([j \in DOMAIN ret.arg |-> Delta(SurfABC(j)) >= 0], i)
NormColumn(i) == CountTo([j \in DOMAIN ret.arg |-> IsFin(ret.val[j])], i)

\* C9 as amended: a ray that starts strictly inside the sphere meets it at
\* exactly one t > 0; when the boundary accepts that exit point,
\* register_incoming returns t for the ray and appends the exit point and the
\* normal center - exit (from the hit toward the center); when the boundary
\* rejects it, the ray's parameter is +infinity.
C9_InsideOriginInwardNormal ==
  ret.op = "register_incoming" =>
    \A i \in DOMAIN ret.arg :
      StartsInside(i) =>
        /\ Cardinality(ExitTimes(i)) = 1
        /\ \A t \in ExitTimes(i) :
             LET exit == PointAt(ret.arg[i], t)
             IN  IF in_bounds(boundary, exit)
                   THEN /\ ret.val[i] = Fin(t)
                        /\ sphere_vertices[VertexColumn(i)] = exit
                        /\ sphere_norm[NormColumn(i)] = VSub(center, exit)
                   ELSE ret.val[i] = Inf

\* C9 witness: the second ray of a bundle starts inside, its exit point is
\* within the boundary and is returned, after a first ray that missed.
C9_Witness ==
  /\ ret.op = "register_incoming"
  /\ Len(ret.arg) = 2
  /\ ret.val[1] = Inf
  /\ StartsInside(2)
  /\ IsFin(ret.val[2])

\* C9 as the claim has it: the normal stored for the exit point of a ray that
\* starts inside is hit - center.
C9_InsideOriginOutwardNormal ==
  ret.op = "register_incoming" =>
    \A i \in DOMAIN ret.arg :
      StartsInside(i) =>
        /\ Cardinality(ExitTimes(i)) = 1
        /\ \A t \in ExitTimes(i) :
             LET exit == PointAt(ret.arg[i], t)
             IN  /\ ret.val[i] = Fin(t)
                 /\ sphere_norm[NormColumn(i)] = VSub(exit, center)

\* C10: a find_intersections call leaves the bundle, the vertices and the
\* normals of that call in the store, and the retrievals leave the store as
\* it is.
C10_StoreIsLastCall ==
  [][/\ ret'.op = "find_intersections" =>
          /\ gm_bundle' = ret'.arg
          /\ Len(gm_vertices') = Len(ret'.arg)
          /\ Len(gm_norm') = Len(ret'.arg)
     /\ ret'.op \in {"get_normals", "get_intersection_points_global"} =>
          UNCHANGED <<gm_bundle, gm_vertices, gm_norm>>]_vars

====
